---- MODULE Spec2Model ----
(***************************************************************************)
(* A model of scaficionado (src/src/lib.rs): run() loads the configuration, *)
(* merges the command-line settings into it, processes every scaffold in    *)
(* configuration order (resolve the source, build the context, render the  *)
(* file entries, run the hooks) and finally removes the directories of the *)
(* remote clones.                                                          *)
(*                                                                         *)
(* Strings are sequences of chunks (<<"https://", "host/repo">>), so that   *)
(* starts_with / ends_with / join are computed and not looked up.  An       *)
(* Option is a sequence of length at most one: None is <<>>, Some(x) <<x>>. *)
(***************************************************************************)
EXTENDS Integers, Sequences, FiniteSets, TLC

VARIABLES
    args,             \* the parsed command line (struct Args)
    config_file,      \* what the configuration file on disk holds
    config,           \* the in-memory Config of run()
    pc,               \* the position of run() / process_scaffold()
    project_name,     \* run(): let project_name
    output,           \* run(): let output
    overwrite,        \* run(): let overwrite
    i,                \* index of the scaffold the for loop of run() is at
    base,             \* process_scaffold(): scaffold_repo_base (an Option)
    context,          \* process_scaffold(): the Tera context
    tera,             \* render_templates(): the templates registered, by key
    j,                \* render_templates(): index of the file entry at hand
    out,              \* the files on disk outside the temporary directories
    out0,             \* the files that were on disk before the run
    tmp,              \* the temporary directories on disk
    next_tmp,         \* how many temporary directories were allocated so far
    persistent_dirs,  \* run(): let mut persistent_dirs
    k,                \* clean_up_persistent_dirs(): index of the dir at hand
    log,              \* what the run has done so far, in order
    err               \* the step whose error ended the run, "" if none

vars == <<args, config_file, config, pc, project_name, output, overwrite, i,
          base, context, tera, j, out, out0, tmp, next_tmp, persistent_dirs,
          k, log, err>>

None == <<>>
Some(x) == <<x>>
IsSome(o) == Len(o) = 1
Unwrap(o) == o[1]
UnwrapOr(o, d) == IF Len(o) = 1 THEN o[1] ELSE d

(***************************************************************************)
(* Bounds of the model.                                                    *)
(***************************************************************************)
MaxScaffolds == 2

(***************************************************************************)
(* The defaults of the command line.                                       *)
(***************************************************************************)
DEFAULT_PROJECT_NAME == "MyExampleProject"
DEFAULT_OUTPUT == "generated"
DEFAULT_OVERWRITE == FALSE

(***************************************************************************)
(* Settings: the command line against the [project] section.               *)
(***************************************************************************)
\* A mutant of overwrite_project_settings_with_args: a section created for
\* one setting is filled with the command line's other settings too.
overwrite_project_settings_fills_section(a, project) ==
    LET filled == Some([name |-> Some(a.project_name), output |-> Some(a.output),
                        overwrite |-> Some(a.overwrite)])
        p1 == IF a.project_name # DEFAULT_PROJECT_NAME
              THEN IF IsSome(project)
                   THEN Some([Unwrap(project) EXCEPT !.name = Some(a.project_name)])
                   ELSE filled
              ELSE project
        p2 == IF a.output # DEFAULT_OUTPUT
              THEN IF IsSome(p1)
                   THEN Some([Unwrap(p1) EXCEPT !.output = Some(a.output)])
                   ELSE filled
              ELSE p1
        p3 == IF a.overwrite # DEFAULT_OVERWRITE
              THEN IF IsSome(p2)
                   THEN Some([Unwrap(p2) EXCEPT !.overwrite = Some(a.overwrite)])
                   ELSE filled
              ELSE p2
    IN  p3

overwrite_project_settings_with_args(a, project) ==
    LET p1 == IF a.project_name # DEFAULT_PROJECT_NAME
              THEN IF IsSome(project)
                   THEN Some([Unwrap(project) EXCEPT !.name = Some(a.project_name)])
                   ELSE Some([name |-> Some(a.project_name), output |-> None,
                              overwrite |-> None])
              ELSE project
        p2 == IF a.output # DEFAULT_OUTPUT
              THEN IF IsSome(p1)
                   THEN Some([Unwrap(p1) EXCEPT !.output = Some(a.output)])
                   ELSE Some([name |-> None, output |-> Some(a.output),
                              overwrite |-> None])
              ELSE p1
        p3 == IF a.overwrite # DEFAULT_OVERWRITE
              THEN IF IsSome(p2)
                   THEN Some([Unwrap(p2) EXCEPT !.overwrite = Some(a.overwrite)])
                   ELSE Some([name |-> None, output |-> None,
                              overwrite |-> Some(a.overwrite)])
              ELSE p2
    IN  p3

get_project_name(a, project) ==
    IF IsSome(project) /\ IsSome(Unwrap(project).name)
    THEN Unwrap(Unwrap(project).name)
    ELSE a.project_name

\* A mutant of get_output_directory: the command line's value comes first.
get_output_directory_cli_first(a, project) == a.output

get_output_directory(a, project) ==
    IF IsSome(project) /\ IsSome(Unwrap(project).output)
    THEN Unwrap(Unwrap(project).output)
    ELSE a.output

get_overwrite(a, project) ==
    IF IsSome(project) /\ IsSome(Unwrap(project).overwrite)
    THEN Unwrap(Unwrap(project).overwrite)
    ELSE a.overwrite

(***************************************************************************)
(* Strings and paths.                                                      *)
(***************************************************************************)
StartsWith(s, prefix) ==
    Len(s) >= Len(prefix) /\ SubSeq(s, 1, Len(prefix)) = prefix

EndsWith(s, suffix) ==
    Len(s) >= Len(suffix) /\ SubSeq(s, Len(s) - Len(suffix) + 1, Len(s)) = suffix

StripPrefix(s, prefix) == SubSeq(s, Len(prefix) + 1, Len(s))

\* Path::is_absolute
IsAbsolute(p) == StartsWith(p, <<"/">>) \/ StartsWith(p, <<"/abs/">>)
                   \/ StartsWith(p, <<"/tmp/">>)

\* Path::join: an absolute right-hand side replaces the left-hand side.
Join(p, rel) == IF IsAbsolute(rel) THEN rel ELSE p \o <<"/">> \o rel

\* A mutant of is_local_repo: plain http is not taken for a remote source.
is_local_repo_secure_only(repo_url) ==
    /\ ~StartsWith(repo_url, <<"https://">>)
    /\ ~StartsWith(repo_url, <<"git://">>)

is_local_repo(repo_url) ==
    /\ ~StartsWith(repo_url, <<"http://">>)
    /\ ~StartsWith(repo_url, <<"https://">>)
    /\ ~StartsWith(repo_url, <<"git://">>)

\* fs::canonicalize of a local path that exists
Canonicalize(repo) == <<"/abs/">> \o repo

\* A mutant of TempRoot: one well-known directory serves every clone.
TempRoot_Shared(n) == <<"/tmp/", "scaficionado">>

\* The root TempDir::new() allocates: a name no earlier call returned.
TempRoot(n) == <<"/tmp/", ToString(n)>>

\* fs::remove_dir_all(dir) on the temporary directories
RemoveDirAll(dirs, dir) == {d \in dirs : ~StartsWith(d, dir)}

(***************************************************************************)
(* The content of a template repository (the same tree whether it is a     *)
(* local directory or a clone), relative to the repository's root.  A      *)
(* text is a sequence of chunks; the chunks in VarOf are the placeholders  *)
(* the template engine substitutes.                                        *)
(***************************************************************************)
VarOf == ("{{project_name}}" :> "project_name") @@ ("{{env}}" :> "env")
            @@ ("{{workers}}" :> "workers")

RepoTree ==
       (<<"templates", "/", "greeting", ".txt", ".tera">>
            :> <<"Hello, ", "{{project_name}}", "!">>)
    @@ (<<"templates", "/", "kind", ".tera">>
            :> <<"config: ", "{{project_name}}", " env: ", "{{env}}",
                 " workers: ", "{{workers}}">>)
    @@ (<<"templates", "/", "static", ".txt">>
            :> <<"raw ", "{{project_name}}">>)
    @@ (<<"templates", "/", "templates/", "greeting", ".txt", ".tera">>
            :> <<"Nested, ", "{{project_name}}", "!">>)

\* Is the source tree rooted at dir on disk?  A canonicalized local path is;
\* a clone is while its directory is.
SourceTreePresent(dir, dirs) ==
    IF StartsWith(dir, <<"/tmp/">>) THEN dir \in dirs ELSE TRUE

\* fs::read of root/rel: Some(text), or None when there is no such file.
ReadFile(root, rel, dirs) ==
    IF SourceTreePresent(root, dirs) /\ rel \in DOMAIN RepoTree
    THEN Some(RepoTree[rel])
    ELSE None

(***************************************************************************)
(* The template engine.                                                    *)
(***************************************************************************)
\* How a context value is printed (toml::Value of a string or an integer).
Display(v) == IF v.type = "int" THEN ToString(v.int) ELSE v.str

StrValue(s) == [type |-> "str", str |-> s, int |-> 0]
IntValue(n) == [type |-> "int", str |-> "", int |-> n]

\* Tera::render / Tera::one_off: every placeholder is replaced by the value
\* of its variable; a variable missing from the context is an error (None).
RenderText(text, ctx) ==
    IF \E n \in 1..Len(text) :
          text[n] \in DOMAIN VarOf /\ VarOf[text[n]] \notin DOMAIN ctx
    THEN None
    ELSE Some([n \in 1..Len(text) |->
                 IF text[n] \in DOMAIN VarOf
                 THEN Display(ctx[VarOf[text[n]]])
                 ELSE text[n]])

\* A mutant of BuildContext: project_name is inserted last.
BuildContext_ProjectNameLast(pname, variables) ==
    IF IsSome(variables)
    THEN ("project_name" :> StrValue(pname)) @@ Unwrap(variables)
    ELSE ("project_name" :> StrValue(pname))

\* process_scaffold: project_name first, then the declared variables.
BuildContext(pname, variables) ==
    IF IsSome(variables)
    THEN Unwrap(variables) @@ ("project_name" :> StrValue(pname))
    ELSE ("project_name" :> StrValue(pname))

(***************************************************************************)
(* The scaffolds a configuration file is made of.                          *)
(***************************************************************************)
TemplateFile(src, dest) == [src |-> src, dest |-> dest]

Greeting ==
    [name |-> Some("Local"),
     repo |-> <<"local/repo">>,
     template_dir |-> Some(<<"templates">>),
     template |-> [files |->
        <<TemplateFile(<<"greeting", ".txt", ".tera">>, <<"greeting", ".txt">>)>>],
     hooks |-> Some([pre |-> Some(<<"scripts/pre.sh">>),
                     post |-> Some(<<"scripts/post.sh">>)]),
     variables |-> None]

Kind ==
    [name |-> Some("kind"),
     repo |-> <<"https://", "host/kind.git">>,
     template_dir |-> None,
     template |-> [files |->
        <<TemplateFile(<<"kind", ".tera">>,
                       <<"{{project_name}}", "-", "{{env}}", ".yaml">>),
          TemplateFile(<<"static", ".txt">>, <<"static", ".txt">>)>>],
     hooks |-> Some([pre |-> Some(<<"scripts/pre.sh">>), post |-> None]),
     variables |-> Some(("env" :> StrValue("development"))
                          @@ ("workers" :> IntValue(3)))]

Nested ==
    [name |-> None,
     repo |-> <<"git://", "host/nested">>,
     template_dir |-> None,
     template |-> [files |->
        <<TemplateFile(<<"templates/", "greeting", ".txt", ".tera">>,
                       <<"nested", ".txt">>),
          TemplateFile(<<"greeting", ".txt", ".tera">>, <<"greeting", ".txt">>)>>],
     hooks |-> Some([pre |-> None, post |-> Some(<<"scripts/post.sh">>)]),
     variables |-> None]

Broken ==
    [name |-> Some("Broken"),
     repo |-> <<"other/repo">>,
     template_dir |-> None,
     template |-> [files |->
        <<TemplateFile(<<"static", ".txt">>, <<"copy", ".txt">>),
          TemplateFile(<<"kind", ".tera">>, <<"kind", ".yaml">>)>>],
     hooks |-> Some([pre |-> None, post |-> Some(<<"scripts/post.sh">>)]),
     variables |-> None]

Static ==
    [name |-> Some("Static"),
     repo |-> <<"local/repo">>,
     template_dir |-> None,
     template |-> [files |->
        <<TemplateFile(<<"static", ".txt">>, <<"static", ".txt">>)>>],
     hooks |-> None,
     variables |-> None]

\* A remote scaffold named like Kind that declares a variable project_name,
\* and writes a greeting.txt of its own where Greeting writes one.
Shadow ==
    [name |-> Some("kind"),
     repo |-> <<"http://", "host/shadow">>,
     template_dir |-> None,
     template |-> [files |->
        <<TemplateFile(<<"greeting", ".txt", ".tera">>,
                       <<"{{env}}", "-", "{{project_name}}", ".txt">>),
          TemplateFile(<<"greeting", ".txt", ".tera">>,
                       <<"greeting", ".txt">>)>>],
     hooks |-> None,
     variables |-> Some(("project_name" :> StrValue("Shadowed"))
                          @@ ("env" :> StrValue("production")))]

\* A scaffold whose source has a scheme that is none of the remote ones, and
\* whose destinations are an absolute path and a path through the parent.
Escape ==
    [name |-> None,
     repo |-> <<"ssh://", "host/escape">>,
     template_dir |-> None,
     template |-> [files |->
        <<TemplateFile(<<"static", ".txt">>, <<"/", "escape", ".txt">>),
          TemplateFile(<<"static", ".txt">>, <<"..", "/", "up", ".txt">>)>>],
     hooks |-> None,
     variables |-> None]

Catalogue == {Greeting, Kind, Nested, Broken, Static, Shadow, Escape}

RECURSIVE SeqsUpTo(_, _)
SeqsUpTo(S, n) ==
    IF n = 0 THEN {<<>>}
    ELSE LET shorter == SeqsUpTo(S, n - 1)
         IN  shorter \cup {Append(q, x) : q \in {r \in shorter : Len(r) = n - 1},
                                          x \in S}

\* The command lines and [project] sections the settings are checked on.
AllArgs ==
    [project_name : {DEFAULT_PROJECT_NAME, "ArgProject"},
     output : {DEFAULT_OUTPUT, "arg_output"},
     overwrite : BOOLEAN]

AllProjects ==
    {None} \cup
    {Some(p) : p \in [name : {None, Some("ConfigProject")},
                      output : {None, Some("ConfigOutput")},
                      overwrite : {None, Some(FALSE), Some(TRUE)}]}

\* The command lines the scaffolds are run under.
RunArgs ==
    [project_name : {DEFAULT_PROJECT_NAME},
     output : {DEFAULT_OUTPUT},
     overwrite : BOOLEAN]

EmptyDisk == [p \in {} |-> <<>>]

\* What the output directory may hold before the run.
InitialDisks ==
    {EmptyDisk,
     (<<"generated", "/", "greeting", ".txt">> :> <<"edited by hand">>)}

Event(s, ev, n, path, content) ==
    [s |-> s, ev |-> ev, j |-> n, path |-> path, content |-> content]

NoContext == [v \in {} |-> StrValue("")]
NoTemplates == [key \in {} |-> <<>>]

InitRun ==
    /\ config = [project |-> None, scaffolds |-> <<>>]
    /\ pc = "start"
    /\ project_name = ""
    /\ output = ""
    /\ overwrite = FALSE
    /\ i = 0
    /\ base = None
    /\ context = NoContext
    /\ tera = NoTemplates
    /\ j = 0
    /\ out = out0
    /\ tmp = {}
    /\ next_tmp = 0
    /\ persistent_dirs = <<>>
    /\ k = 0
    /\ log = <<>>
    /\ err = ""

Init ==
    /\ args \in RunArgs
    /\ config_file \in [project : {None},
                        scaffolds : SeqsUpTo(Catalogue, MaxScaffolds)]
    /\ out0 \in InitialDisks
    /\ InitRun

InitSettings ==
    /\ args \in AllArgs
    /\ config_file \in [project : AllProjects, scaffolds : {<<>>}]
    /\ out0 = EmptyDisk
    /\ InitRun

(***************************************************************************)
(* run(): loading the configuration and the settings.                      *)
(***************************************************************************)
\* An error leaves run() through the ? operator: nothing further runs.
Fail(step, events) ==
    /\ pc' = "failed"
    /\ err' = step
    /\ log' = log \o events \o <<Event(i, "error", j, <<>>, <<step>>)>>

\* load_config(config_path)? succeeded
RunLoadConfig ==
    /\ pc = "start"
    /\ config' = config_file
    /\ pc' = "settings"
    /\ UNCHANGED <<args, config_file, project_name, output, overwrite, i, base,
                   context, tera, j, out, out0, tmp, next_tmp, persistent_dirs,
                   k, log, err>>

\* load_config(config_path)? failed: the file cannot be read or parsed
RunLoadConfigFails ==
    /\ pc = "start"
    /\ Fail("load_config", <<>>)
    /\ UNCHANGED <<args, config_file, config, project_name, output, overwrite,
                   i, base, context, tera, j, out, out0, tmp, next_tmp,
                   persistent_dirs, k>>

RunSettings ==
    /\ pc = "settings"
    /\ LET project == overwrite_project_settings_with_args(args, config.project)
       IN  /\ config' = [config EXCEPT !.project = project]
           /\ project_name' = get_project_name(args, project)
           /\ output' = get_output_directory(args, project)
           /\ overwrite' = get_overwrite(args, project)
    /\ i' = 1
    /\ pc' = "loop"
    /\ UNCHANGED <<args, config_file, base, context, tera, j, out, out0, tmp,
                   next_tmp, persistent_dirs, k, log, err>>

(***************************************************************************)
(* run(): the loop over config.scaffolds.                                  *)
(***************************************************************************)
Scaffold == config.scaffolds[i]

RunNextScaffold ==
    /\ pc = "loop"
    /\ i <= Len(config.scaffolds)
    /\ pc' = "resolve"
    /\ UNCHANGED <<args, config_file, config, project_name, output, overwrite,
                   i, base, context, tera, j, out, out0, tmp, next_tmp,
                   persistent_dirs, k, log, err>>

RunLoopEnds ==
    /\ pc = "loop"
    /\ i > Len(config.scaffolds)
    /\ pc' = "cleanup"
    /\ k' = 1
    /\ UNCHANGED <<args, config_file, config, project_name, output, overwrite,
                   i, base, context, tera, j, out, out0, tmp, next_tmp,
                   persistent_dirs, log, err>>

(***************************************************************************)
(* process_scaffold(): obtaining the scaffold repository.                  *)
(***************************************************************************)
ScaffoldName(s) == UnwrapOr(s.name, "unnamed")

ResolveLocal ==
    /\ pc = "resolve"
    /\ is_local_repo(Scaffold.repo)
    /\ base' = Some(Canonicalize(Scaffold.repo))
    /\ log' = Append(log, Event(i, "resolve", 0, Canonicalize(Scaffold.repo), <<>>))
    /\ pc' = "context"
    /\ UNCHANGED <<args, config_file, config, project_name, output, overwrite,
                   i, context, tera, j, out, out0, tmp, next_tmp,
                   persistent_dirs, k, err>>

\* A mutant of ResolveLocalFails: the path as configured is used when it
\* cannot be canonicalized.
ResolveLocalFails_FallsBack ==
    /\ pc = "resolve"
    /\ is_local_repo(Scaffold.repo)
    /\ base' = Some(Scaffold.repo)
    /\ log' = Append(log, Event(i, "error", j, <<>>, <<"resolve">>))
    /\ pc' = "context"
    /\ UNCHANGED <<args, config_file, config, project_name, output, overwrite,
                   i, context, tera, j, out, out0, tmp, next_tmp,
                   persistent_dirs, k, err>>

\* fs::canonicalize(&scaffold.repo)? failed: no such path
ResolveLocalFails ==
    /\ pc = "resolve"
    /\ is_local_repo(Scaffold.repo)
    /\ Fail("resolve", <<>>)
    /\ UNCHANGED <<args, config_file, config, project_name, output, overwrite,
                   i, base, context, tera, j, out, out0, tmp, next_tmp,
                   persistent_dirs, k>>

\* TempDir::new()? failed
ResolveTempDirFails ==
    /\ pc = "resolve"
    /\ ~is_local_repo(Scaffold.repo)
    /\ Fail("resolve", <<>>)
    /\ UNCHANGED <<args, config_file, config, project_name, output, overwrite,
                   i, base, context, tera, j, out, out0, tmp, next_tmp,
                   persistent_dirs, k>>

\* The directories after TempDir::new() and the removal of a stale
\* scaffold_dir, before the clone.
TempDirAllocated(dirs, root, scaffold_dir) ==
    LET made == dirs \cup {root}
    IN  IF scaffold_dir \in made THEN RemoveDirAll(made, scaffold_dir) ELSE made

\* obtain_template_repo(..)? failed: temp_dir is dropped, which removes it.
\* A mutant of ResolveCloneFails: the temporary directory outlives the
\* failed clone.
ResolveCloneFails_Leaks ==
    /\ pc = "resolve"
    /\ ~is_local_repo(Scaffold.repo)
    /\ LET root == TempRoot(next_tmp + 1)
           scaffold_dir == Join(root, <<ScaffoldName(Scaffold)>>)
       IN  /\ tmp' = TempDirAllocated(tmp, root, scaffold_dir)
           /\ Fail("resolve", <<Event(i, "tempdir", 0, root, <<>>)>>)
    /\ next_tmp' = next_tmp + 1
    /\ UNCHANGED <<args, config_file, config, project_name, output, overwrite,
                   i, base, context, tera, j, out, out0, persistent_dirs, k>>

ResolveCloneFails ==
    /\ pc = "resolve"
    /\ ~is_local_repo(Scaffold.repo)
    /\ LET root == TempRoot(next_tmp + 1)
           scaffold_dir == Join(root, <<ScaffoldName(Scaffold)>>)
       IN  /\ tmp' = RemoveDirAll(TempDirAllocated(tmp, root, scaffold_dir), root)
           /\ Fail("resolve", <<Event(i, "tempdir", 0, root, <<>>)>>)
    /\ next_tmp' = next_tmp + 1
    /\ UNCHANGED <<args, config_file, config, project_name, output, overwrite,
                   i, base, context, tera, j, out, out0, persistent_dirs, k>>

\* The clone succeeded: temp_dir.into_path() keeps the directory, and the
\* base is persistent_temp_dir.join(name).
ResolveRemote ==
    /\ pc = "resolve"
    /\ ~is_local_repo(Scaffold.repo)
    /\ LET root == TempRoot(next_tmp + 1)
           scaffold_dir == Join(root, <<ScaffoldName(Scaffold)>>)
       IN  /\ tmp' = TempDirAllocated(tmp, root, scaffold_dir) \cup {scaffold_dir}
           /\ base' = Some(Join(root, <<ScaffoldName(Scaffold)>>))
           /\ log' = log \o <<Event(i, "tempdir", 0, root, <<>>),
                              Event(i, "resolve", 0, scaffold_dir, <<>>)>>
    /\ next_tmp' = next_tmp + 1
    /\ pc' = "context"
    /\ UNCHANGED <<args, config_file, config, project_name, output, overwrite,
                   i, context, tera, j, out, out0, persistent_dirs, k, err>>

\* Lines 336-348: the templates directory and the templating context.
TemplateDir(s) == UnwrapOr(s.template_dir, <<"templates">>)

SetUpContext ==
    /\ pc = "context"
    /\ context' = BuildContext(project_name, Scaffold.variables)
    /\ log' = Append(log, Event(i, "context", 0, <<>>, <<>>))
    /\ pc' = "register"
    /\ UNCHANGED <<args, config_file, config, project_name, output, overwrite,
                   i, base, tera, j, out, out0, tmp, next_tmp, persistent_dirs,
                   k, err>>

(***************************************************************************)
(* render_templates()                                                      *)
(***************************************************************************)
IsTemplate(src) == EndsWith(src, <<".tera">>)

\* The key a template is registered and rendered under.
TemplateKey(src) ==
    IF StartsWith(src, <<"templates/">>)
    THEN StripPrefix(src, <<"templates/">>)
    ELSE src

\* templates_dir.join(&file.src), relative to the scaffold's base
TemplatePath(s, src) == Join(TemplateDir(s), src)

\* The first loop: tera.add_template_file(file_path, Some(key))? for every
\* entry from the n-th on.  None when a file cannot be read.
RECURSIVE AddTemplateFiles(_, _, _, _, _)
AddTemplateFiles(s, n, reg, root, dirs) ==
    IF n > Len(s.template.files) THEN Some(reg)
    ELSE LET file == s.template.files[n]
             text == ReadFile(root, TemplatePath(s, file.src), dirs)
         IN  IF ~IsTemplate(file.src)
             THEN AddTemplateFiles(s, n + 1, reg, root, dirs)
             ELSE IF ~IsSome(text) THEN None
             ELSE AddTemplateFiles(s, n + 1,
                      (TemplateKey(file.src) :>
                          [path |-> TemplatePath(s, file.src),
                           text |-> Unwrap(text)]) @@ reg,
                      root, dirs)

RegisterTemplates ==
    /\ pc = "register"
    /\ LET reg == AddTemplateFiles(Scaffold, 1, NoTemplates, Unwrap(base), tmp)
       IN  /\ IsSome(reg)
           /\ tera' = Unwrap(reg)
    /\ log' = Append(log, Event(i, "register", 0, <<>>, <<>>))
    /\ j' = 1
    /\ pc' = "render"
    /\ UNCHANGED <<args, config_file, config, project_name, output, overwrite,
                   i, base, context, out, out0, tmp, next_tmp, persistent_dirs,
                   k, err>>

\* A mutant of RegisterFails: a template is registered when its entry is
\* reached, so that a broken one is found after the entries before it.
RegisterFails_Lazy ==
    /\ pc = "render"
    /\ j <= Len(Scaffold.template.files)
    /\ IsTemplate(Scaffold.template.files[j].src)
    /\ Fail("register", <<>>)
    /\ UNCHANGED <<args, config_file, config, project_name, output, overwrite,
                   i, base, context, tera, j, out, out0, tmp, next_tmp,
                   persistent_dirs, k>>

\* add_template_file(..)? failed for some template entry: its file is
\* missing, cannot be read, or is not a well-formed template.
RegisterFails ==
    /\ pc = "register"
    /\ \E n \in 1..Len(Scaffold.template.files) :
          IsTemplate(Scaffold.template.files[n].src)
    /\ Fail("register", <<>>)
    /\ UNCHANGED <<args, config_file, config, project_name, output, overwrite,
                   i, base, context, tera, j, out, out0, tmp, next_tmp,
                   persistent_dirs, k>>

File == Scaffold.template.files[j]

\* A mutant of DestPathStr: the destination sees project_name only.
DestPathStr_ProjectNameOnly ==
    RenderText(File.dest, "project_name" :> StrValue(project_name))

\* Tera::one_off(&file.dest, context_data, false)
DestPathStr == RenderText(File.dest, context)

\* output_base.join(dest_path_str)
DestPath == Join(<<output>>, Unwrap(DestPathStr))

\* Mutants of SkipsExisting: the policy that never skips, and the one that
\* skips whatever the flag says.
SkipsExisting_Never(path, disk, ow) == FALSE
SkipsExisting_IgnoresFlag(path, disk, ow) == path \in DOMAIN disk

\* A mutant of SkipsExisting: only the files from before the run are kept.
SkipsExisting_InitialOnly(path, disk, ow) == path \in DOMAIN out0 /\ ~ow

\* dest_path.exists() && !overwrite
SkipsExisting(path, disk, ow) == path \in DOMAIN disk /\ ~ow

\* What the entry writes: tera.render(key, context_data) for a template,
\* the bytes of the source file for any other entry.  None on an error.
EntryContent ==
    IF IsTemplate(File.src)
    THEN IF TemplateKey(File.src) \in DOMAIN tera
         THEN RenderText(tera[TemplateKey(File.src)].text, context)
         ELSE None
    ELSE ReadFile(Unwrap(base), TemplatePath(Scaffold, File.src), tmp)

EntrySkip ==
    /\ pc = "render"
    /\ j <= Len(Scaffold.template.files)
    /\ IsSome(DestPathStr)
    /\ SkipsExisting(DestPath, out, overwrite)
    /\ log' = Append(log, Event(i, "skip", j, DestPath, <<>>))
    /\ j' = j + 1
    /\ UNCHANGED <<args, config_file, config, pc, project_name, output,
                   overwrite, i, base, context, tera, out, out0, tmp, next_tmp,
                   persistent_dirs, k, err>>

\* fs::write(dest_path, rendered) / fs::copy(source_path, dest_path)
WriteFile(disk, path, content) == (path :> content) @@ disk

EntryWrite ==
    /\ pc = "render"
    /\ j <= Len(Scaffold.template.files)
    /\ IsSome(DestPathStr)
    /\ ~SkipsExisting(DestPath, out, overwrite)
    /\ IsSome(EntryContent)
    /\ out' = WriteFile(out, DestPath, Unwrap(EntryContent))
    /\ log' = Append(log, Event(i, "write", j, DestPath, Unwrap(EntryContent)))
    /\ j' = j + 1
    /\ UNCHANGED <<args, config_file, config, pc, project_name, output,
                   overwrite, i, base, context, tera, out0, tmp, next_tmp,
                   persistent_dirs, k, err>>

\* The entry's own error: the destination or the template refers to a
\* variable the context lacks, or the file to copy is missing.
EntryError ==
    \/ ~IsSome(DestPathStr)
    \/ /\ ~SkipsExisting(DestPath, out, overwrite)
       /\ ~IsSome(EntryContent)

\* A mutant of EntryFails: the error is reported and the loop goes on with
\* the next entry.
EntryFails_Continues ==
    /\ pc = "render"
    /\ j <= Len(Scaffold.template.files)
    /\ EntryError
    /\ log' = Append(log, Event(i, "error", j, <<>>, <<"render">>))
    /\ j' = j + 1
    /\ UNCHANGED <<args, config_file, config, pc, project_name, output,
                   overwrite, i, base, context, tera, out, out0, tmp, next_tmp,
                   persistent_dirs, k, err>>

EntryFails ==
    /\ pc = "render"
    /\ j <= Len(Scaffold.template.files)
    /\ EntryError
    /\ Fail("render", <<>>)
    /\ UNCHANGED <<args, config_file, config, project_name, output, overwrite,
                   i, base, context, tera, j, out, out0, tmp, next_tmp,
                   persistent_dirs, k>>

\* fs::create_dir_all(parent)?, fs::write(..)? or fs::copy(..)? failed
EntryIoFails ==
    /\ pc = "render"
    /\ j <= Len(Scaffold.template.files)
    /\ IsSome(DestPathStr)
    /\ ~SkipsExisting(DestPath, out, overwrite)
    /\ Fail("render", <<>>)
    /\ UNCHANGED <<args, config_file, config, project_name, output, overwrite,
                   i, base, context, tera, j, out, out0, tmp, next_tmp,
                   persistent_dirs, k>>

\* render_templates returned Ok(())
RenderDone ==
    /\ pc = "render"
    /\ j > Len(Scaffold.template.files)
    /\ log' = Append(log, Event(i, "rendered", 0, <<>>, <<>>))
    /\ pc' = "pre"
    /\ UNCHANGED <<args, config_file, config, project_name, output, overwrite,
                   i, base, context, tera, j, out, out0, tmp, next_tmp,
                   persistent_dirs, k, err>>

(***************************************************************************)
(* process_scaffold(): the hooks and the result.                           *)
(***************************************************************************)
PreScript(s) == IF IsSome(s.hooks) THEN Unwrap(s.hooks).pre ELSE None
PostScript(s) == IF IsSome(s.hooks) THEN Unwrap(s.hooks).post ELSE None

\* How Command::new(script_path).status() may end: the script is spawned
\* only if it is on disk.
HookOutcomes(root, dirs) ==
    IF SourceTreePresent(root, dirs)
    THEN {"spawn error", "exit failure", "exit success"}
    ELSE {"spawn error"}

\* A mutant of run_hook: a script that was spawned is a success.
run_hook_spawned(outcome) == outcome # "spawn error"

\* run_hook returns Ok(())
run_hook(outcome) == outcome = "exit success"

\* A mutant of PreHook: a pre-hook that fails is run a second time.
PreHook_Retries ==
    /\ pc = "pre"
    /\ IsSome(PreScript(Scaffold))
    /\ \E outcome \in HookOutcomes(Unwrap(base), tmp) :
          IF run_hook(outcome)
          THEN /\ log' = Append(log, Event(i, "pre", 0,
                              Join(Unwrap(base), Unwrap(PreScript(Scaffold))),
                              <<outcome>>))
               /\ pc' = "post"
          ELSE /\ \A n \in DOMAIN log :
                      ~(log[n].s = i /\ log[n].ev = "pre failed")
               /\ log' = Append(log, Event(i, "pre failed", 0,
                              Join(Unwrap(base), Unwrap(PreScript(Scaffold))),
                              <<outcome>>))
               /\ pc' = "pre"
    /\ UNCHANGED <<args, config_file, config, project_name, output, overwrite,
                   i, base, context, tera, j, out, out0, tmp, next_tmp,
                   persistent_dirs, k, err>>

PreHook ==
    /\ pc = "pre"
    /\ IsSome(PreScript(Scaffold))
    /\ \E outcome \in HookOutcomes(Unwrap(base), tmp) :
          /\ run_hook(outcome)
          /\ log' = Append(log, Event(i, "pre", 0,
                              Join(Unwrap(base), Unwrap(PreScript(Scaffold))),
                              <<outcome>>))
    /\ pc' = "post"
    /\ UNCHANGED <<args, config_file, config, project_name, output, overwrite,
                   i, base, context, tera, j, out, out0, tmp, next_tmp,
                   persistent_dirs, k, err>>

\* A mutant of PreHookFails: the failure is reported and the scaffold goes on.
PreHookFails_Continues ==
    /\ pc = "pre"
    /\ IsSome(PreScript(Scaffold))
    /\ \E outcome \in HookOutcomes(Unwrap(base), tmp) :
          /\ ~run_hook(outcome)
          /\ log' = log \o <<Event(i, "pre failed", 0,
                                Join(Unwrap(base), Unwrap(PreScript(Scaffold))),
                                <<outcome>>),
                             Event(i, "error", j, <<>>, <<"pre hook">>)>>
    /\ pc' = "post"
    /\ UNCHANGED <<args, config_file, config, project_name, output, overwrite,
                   i, base, context, tera, j, out, out0, tmp, next_tmp,
                   persistent_dirs, k, err>>

PreHookFails ==
    /\ pc = "pre"
    /\ IsSome(PreScript(Scaffold))
    /\ \E outcome \in HookOutcomes(Unwrap(base), tmp) :
          /\ ~run_hook(outcome)
          /\ Fail("pre hook", <<Event(i, "pre failed", 0,
                              Join(Unwrap(base), Unwrap(PreScript(Scaffold))),
                              <<outcome>>)>>)
    /\ UNCHANGED <<args, config_file, config, project_name, output, overwrite,
                   i, base, context, tera, j, out, out0, tmp, next_tmp,
                   persistent_dirs, k>>

\* A mutant of PreHookAbsent: a scaffold without a pre-hook is refused.
PreHookAbsent_IsError ==
    /\ pc = "pre"
    /\ ~IsSome(PreScript(Scaffold))
    /\ Fail("pre hook", <<>>)
    /\ UNCHANGED <<args, config_file, config, project_name, output, overwrite,
                   i, base, context, tera, j, out, out0, tmp, next_tmp,
                   persistent_dirs, k>>

PreHookAbsent ==
    /\ pc = "pre"
    /\ ~IsSome(PreScript(Scaffold))
    /\ pc' = "post"
    /\ UNCHANGED <<args, config_file, config, project_name, output, overwrite,
                   i, base, context, tera, j, out, out0, tmp, next_tmp,
                   persistent_dirs, k, log, err>>

PostHook ==
    /\ pc = "post"
    /\ IsSome(PostScript(Scaffold))
    /\ \E outcome \in HookOutcomes(Unwrap(base), tmp) :
          /\ run_hook(outcome)
          /\ log' = Append(log, Event(i, "post", 0,
                              Join(Unwrap(base), Unwrap(PostScript(Scaffold))),
                              <<outcome>>))
    /\ pc' = "return"
    /\ UNCHANGED <<args, config_file, config, project_name, output, overwrite,
                   i, base, context, tera, j, out, out0, tmp, next_tmp,
                   persistent_dirs, k, err>>

\* A mutant of PostHookFails: the failure is reported and the run goes on.
PostHookFails_Continues ==
    /\ pc = "post"
    /\ IsSome(PostScript(Scaffold))
    /\ \E outcome \in HookOutcomes(Unwrap(base), tmp) :
          /\ ~run_hook(outcome)
          /\ log' = log \o <<Event(i, "post failed", 0,
                                Join(Unwrap(base), Unwrap(PostScript(Scaffold))),
                                <<outcome>>),
                             Event(i, "error", j, <<>>, <<"post hook">>)>>
    /\ pc' = "return"
    /\ UNCHANGED <<args, config_file, config, project_name, output, overwrite,
                   i, base, context, tera, j, out, out0, tmp, next_tmp,
                   persistent_dirs, k, err>>

PostHookFails ==
    /\ pc = "post"
    /\ IsSome(PostScript(Scaffold))
    /\ \E outcome \in HookOutcomes(Unwrap(base), tmp) :
          /\ ~run_hook(outcome)
          /\ Fail("post hook", <<Event(i, "post failed", 0,
                              Join(Unwrap(base), Unwrap(PostScript(Scaffold))),
                              <<outcome>>)>>)
    /\ UNCHANGED <<args, config_file, config, project_name, output, overwrite,
                   i, base, context, tera, j, out, out0, tmp, next_tmp,
                   persistent_dirs, k>>

PostHookAbsent ==
    /\ pc = "post"
    /\ ~IsSome(PostScript(Scaffold))
    /\ pc' = "return"
    /\ UNCHANGED <<args, config_file, config, project_name, output, overwrite,
                   i, base, context, tera, j, out, out0, tmp, next_tmp,
                   persistent_dirs, k, log, err>>

\* A mutant of ScaffoldResult: the base directory is reported whatever the
\* source is.
ScaffoldResult_Always(s, b) == b

\* The value process_scaffold returns: Ok(None) or Ok(Some(scaffold_repo_base))
ScaffoldResult(s, b) == IF is_local_repo(s.repo) THEN None ELSE b

\* A mutant of ScaffoldReturn: the clone is removed as soon as its scaffold
\* has finished.
ScaffoldReturn_RemovesClone ==
    /\ pc = "return"
    /\ persistent_dirs' = persistent_dirs \o ScaffoldResult(Scaffold, base)
    /\ tmp' = IF IsSome(ScaffoldResult(Scaffold, base))
              THEN RemoveDirAll(tmp, Unwrap(base))
              ELSE tmp
    /\ log' = Append(log, Event(i, "return", 0, <<>>, <<>>))
    /\ i' = i + 1
    /\ base' = None
    /\ context' = NoContext
    /\ tera' = NoTemplates
    /\ j' = 0
    /\ pc' = "loop"
    /\ UNCHANGED <<args, config_file, config, project_name, output, overwrite,
                   out, out0, next_tmp, k, err>>

\* process_scaffold returns; run() pushes the directory, if any, and moves on
ScaffoldReturn ==
    /\ pc = "return"
    /\ persistent_dirs' = persistent_dirs \o ScaffoldResult(Scaffold, base)
    /\ log' = Append(log, Event(i, "return", 0, <<>>, <<>>))
    /\ i' = i + 1
    /\ base' = None
    /\ context' = NoContext
    /\ tera' = NoTemplates
    /\ j' = 0
    /\ pc' = "loop"
    /\ UNCHANGED <<args, config_file, config, project_name, output, overwrite,
                   out, out0, tmp, next_tmp, k, err>>

(***************************************************************************)
(* clean_up_persistent_dirs()                                              *)
(***************************************************************************)
\* A mutant of CleanUpRemove: the removal reports success and removes nothing.
CleanUpRemove_Pretends ==
    /\ pc = "cleanup"
    /\ k <= Len(persistent_dirs)
    /\ persistent_dirs[k] \in tmp
    /\ log' = Append(log, Event(i, "remove", k, persistent_dirs[k], <<>>))
    /\ k' = k + 1
    /\ UNCHANGED <<args, config_file, config, pc, project_name, output,
                   overwrite, i, base, context, tera, j, out, out0, tmp,
                   next_tmp, persistent_dirs, err>>

CleanUpRemove ==
    /\ pc = "cleanup"
    /\ k <= Len(persistent_dirs)
    /\ persistent_dirs[k] \in tmp
    /\ tmp' = RemoveDirAll(tmp, persistent_dirs[k])
    /\ log' = Append(log, Event(i, "remove", k, persistent_dirs[k], <<>>))
    /\ k' = k + 1
    /\ UNCHANGED <<args, config_file, config, pc, project_name, output,
                   overwrite, i, base, context, tera, j, out, out0, next_tmp,
                   persistent_dirs, err>>

\* A mutant of CleanUpFails: the directories after the failing one are
\* removed before the error is returned.
CleanUpFails_RemovesRest ==
    /\ pc = "cleanup"
    /\ k <= Len(persistent_dirs)
    /\ tmp' = {t \in tmp : \A d \in (k + 1)..Len(persistent_dirs) :
                              ~StartsWith(t, persistent_dirs[d])}
    /\ Fail("cleanup", <<>>)
    /\ UNCHANGED <<args, config_file, config, project_name, output, overwrite,
                   i, base, context, tera, j, out, out0, next_tmp,
                   persistent_dirs, k>>

\* A mutant of CleanUpFails: the directory is left behind and cleanup goes on.
CleanUpFails_Ignored ==
    /\ pc = "cleanup"
    /\ k <= Len(persistent_dirs)
    /\ log' = Append(log, Event(i, "error", j, <<>>, <<"cleanup">>))
    /\ k' = k + 1
    /\ UNCHANGED <<args, config_file, config, pc, project_name, output,
                   overwrite, i, base, context, tera, j, out, out0, tmp,
                   next_tmp, persistent_dirs, err>>

\* fs::remove_dir_all(&dir)? failed
CleanUpFails ==
    /\ pc = "cleanup"
    /\ k <= Len(persistent_dirs)
    /\ Fail("cleanup", <<>>)
    /\ UNCHANGED <<args, config_file, config, project_name, output, overwrite,
                   i, base, context, tera, j, out, out0, tmp, next_tmp,
                   persistent_dirs, k>>

\* clean_up_persistent_dirs returned Ok(()), and so does run()
RunDone ==
    /\ pc = "cleanup"
    /\ k > Len(persistent_dirs)
    /\ pc' = "done"
    /\ UNCHANGED <<args, config_file, config, project_name, output, overwrite,
                   i, base, context, tera, j, out, out0, tmp, next_tmp,
                   persistent_dirs, k, log, err>>

Next ==
    \/ RunLoadConfig \/ RunLoadConfigFails \/ RunSettings
    \/ RunNextScaffold \/ RunLoopEnds
    \/ ResolveLocal \/ ResolveLocalFails
    \/ ResolveTempDirFails \/ ResolveCloneFails \/ ResolveRemote
    \/ SetUpContext
    \/ RegisterTemplates \/ RegisterFails
    \/ EntrySkip \/ EntryWrite \/ EntryFails \/ EntryIoFails \/ RenderDone
    \/ PreHook \/ PreHookFails \/ PreHookAbsent
    \/ PostHook \/ PostHookFails \/ PostHookAbsent
    \/ ScaffoldReturn
    \/ CleanUpRemove \/ CleanUpFails \/ RunDone

Spec == Init /\ [][Next]_vars

\* The settings alone, over every command line and [project] section.
NextSettings == RunLoadConfig \/ RunLoadConfigFails \/ RunSettings

SpecSettings == InitSettings /\ [][NextSettings]_vars

(***************************************************************************)
(* Properties.                                                             *)
(***************************************************************************)
\* The step of the per-scaffold state machine an event belongs to:
\* Resolve Source, Build Context, Run Pre-Hook, Render, Run Post-Hook.
StepRank(ev) ==
    CASE ev \in {"tempdir", "resolve"} -> 1
      [] ev = "context" -> 2
      [] ev \in {"pre", "pre failed"} -> 3
      [] ev \in {"register", "write", "skip", "rendered"} -> 4
      [] ev \in {"post", "post failed"} -> 5
      [] OTHER -> 6

ScaffoldEvents == {n \in DOMAIN log : log[n].ev \notin {"error", "remove"}}

\* C1: the steps of every scaffold happen in the order Resolve Source, Build
\* Context, Run Pre-Hook, Render, Run Post-Hook: a declared pre-hook has
\* finished before any destination file of its scaffold is written, and the
\* post-hook starts only after every file entry has been processed.
C1_StepOrder ==
    \A m, n \in ScaffoldEvents :
        (m < n /\ log[m].s = log[n].s) => StepRank(log[m].ev) <= StepRank(log[n].ev)

\* C2: when the pre-hook of a scaffold fails, none of its file entries has
\* been rendered or copied, and from an empty output root no output file of
\* the scaffold exists when process_scaffold returns the error.
C2_PreHookFailureLeavesNoOutput ==
    (/\ pc = "failed" /\ err = "pre hook"
     /\ \E n \in DOMAIN log : /\ log[n].ev = "pre failed"
                              /\ log[n].content = <<"exit failure">>) =>
        /\ \A n \in DOMAIN log : ~(log[n].s = i /\ log[n].ev = "write")
        /\ out0 = EmptyDisk =>
              \A n \in 1..Len(Scaffold.template.files) :
                  LET dest == RenderText(Scaffold.template.files[n].dest, context)
                  IN  IsSome(dest) => Join(<<output>>, Unwrap(dest)) \notin DOMAIN out

\* The index of the last write to path the log holds, 0 if there is none.
LastWrite(path) ==
    LET writes == {n \in DOMAIN log : log[n].ev = "write" /\ log[n].path = path}
    IN  IF writes = {} THEN 0 ELSE CHOOSE n \in writes : \A m \in writes : m <= n

\* C3: with overwrite=false no step changes or removes a file that exists,
\* and an entry whose destination exists is skipped: nothing is written, no
\* error is raised and the loop moves on to the next entry.
C3_NoOverwriteKeepsExistingFiles ==
    [][/\ (pc # "start" /\ pc # "settings" /\ ~overwrite) =>
              \A p \in DOMAIN out : p \in DOMAIN out' /\ out'[p] = out[p]
       /\ (/\ pc = "render" /\ ~overwrite
           /\ j <= Len(Scaffold.template.files)
           /\ IsSome(DestPathStr)
           /\ DestPath \in DOMAIN out) =>
              (out' = out /\ pc' = "render" /\ j' = j + 1 /\ err' = "")]_vars

\* C3 happens: without overwrite, a file edited by hand before the run was
\* the destination of an entry of both of two scaffolds, and still holds
\* what it held.
C3_Witness ==
    /\ pc = "done" /\ ~overwrite
    /\ \E p \in DOMAIN out0 :
          /\ out[p] = out0[p]
          /\ \E m, n \in DOMAIN log :
                /\ log[m].ev = "skip" /\ log[m].path = p /\ log[m].s = 1
                /\ log[n].ev = "skip" /\ log[n].path = p /\ log[n].s = 2

\* C4: with overwrite=true, when render_templates has returned Ok every
\* entry of the scaffold was written (none skipped) and every destination
\* holds the content rendered or copied for it by that call, the last entry
\* of a destination deciding; this holds for each call of a run.
C4_OverwriteLeavesFreshContent ==
    (pc = "pre" /\ overwrite) =>
        \A n \in 1..Len(Scaffold.template.files) :
            \E w \in DOMAIN log :
                /\ log[w].s = i /\ log[w].ev = "write" /\ log[w].j = n
                /\ log[w].path \in DOMAIN out
                /\ LastWrite(log[w].path) >= w
                /\ log[LastWrite(log[w].path)].s = i
                /\ out[log[w].path] = log[LastWrite(log[w].path)].content

\* C4 happens: the second rendering of the same scaffold has replaced, like
\* the first, what the destination held before the run.
C4_Witness ==
    /\ pc = "pre" /\ overwrite /\ i = 2
    /\ config.scaffolds[1] = config.scaffolds[2]
    /\ \E p \in DOMAIN out0 :
          /\ out[p] # out0[p]
          /\ \E m, n \in DOMAIN log :
                /\ log[m].ev = "write" /\ log[m].path = p /\ log[m].s = 1
                /\ log[n].ev = "write" /\ log[n].path = p /\ log[n].s = 2

\* A field of the [project] section; a missing section supplies nothing.
ProjectField(project, field) ==
    IF IsSome(project) THEN Unwrap(project)[field] ELSE None

\* C5 as the specification states it: the value of the configuration file
\* is the effective one whenever the file supplies it, whatever the command
\* line; the command line's value is used only when the file has none.
C5_ConfigFileWins ==
    pc = "loop" =>
        /\ project_name =
              UnwrapOr(ProjectField(config_file.project, "name"), args.project_name)
        /\ output =
              UnwrapOr(ProjectField(config_file.project, "output"), args.output)
        /\ overwrite =
              UnwrapOr(ProjectField(config_file.project, "overwrite"), args.overwrite)

\* C5, amended: the effective setting is the command line's value when that
\* differs from the built-in default; otherwise it is the configuration
\* file's value when the file supplies one, and the default when not.
C5_ExplicitCliWins ==
    pc = "loop" =>
        /\ project_name =
              IF args.project_name # DEFAULT_PROJECT_NAME THEN args.project_name
              ELSE UnwrapOr(ProjectField(config_file.project, "name"),
                            DEFAULT_PROJECT_NAME)
        /\ output =
              IF args.output # DEFAULT_OUTPUT THEN args.output
              ELSE UnwrapOr(ProjectField(config_file.project, "output"),
                            DEFAULT_OUTPUT)
        /\ overwrite =
              IF args.overwrite # DEFAULT_OVERWRITE THEN args.overwrite
              ELSE UnwrapOr(ProjectField(config_file.project, "overwrite"),
                            DEFAULT_OVERWRITE)

\* C5 happens: the file and the command line both name the project, the
\* output directory and the overwrite flag, and run() uses the command line's.
C5_Witness ==
    /\ pc = "loop"
    /\ IsSome(ProjectField(config_file.project, "name"))
    /\ IsSome(ProjectField(config_file.project, "output"))
    /\ ProjectField(config_file.project, "overwrite") = Some(FALSE)
    /\ args.project_name # DEFAULT_PROJECT_NAME /\ project_name = args.project_name
    /\ args.output # DEFAULT_OUTPUT /\ output = args.output
    /\ args.overwrite /\ overwrite

\* C6: overwrite_project_settings_with_args sets a setting of the project
\* section to the command line's value exactly when that value differs from
\* the built-in default, creating the section when it is absent; any other
\* setting is as the file had it, and absent in a section just created.
C6_SettingsReplacedIffNotDefault ==
    pc = "loop" =>
        /\ ProjectField(config.project, "name") =
              IF args.project_name # DEFAULT_PROJECT_NAME
              THEN Some(args.project_name)
              ELSE ProjectField(config_file.project, "name")
        /\ ProjectField(config.project, "output") =
              IF args.output # DEFAULT_OUTPUT
              THEN Some(args.output)
              ELSE ProjectField(config_file.project, "output")
        /\ ProjectField(config.project, "overwrite") =
              IF args.overwrite # DEFAULT_OVERWRITE
              THEN Some(args.overwrite)
              ELSE ProjectField(config_file.project, "overwrite")
        /\ IsSome(config.project) <=>
              \/ IsSome(config_file.project)
              \/ args.project_name # DEFAULT_PROJECT_NAME
              \/ args.output # DEFAULT_OUTPUT
              \/ args.overwrite # DEFAULT_OVERWRITE

\* C6 happens: the file has no project section, the command line names only
\* the output directory, and the section created holds nothing else.
C6_Witness ==
    /\ pc = "loop"
    /\ ~IsSome(config_file.project)
    /\ args.project_name = DEFAULT_PROJECT_NAME
    /\ args.output # DEFAULT_OUTPUT
    /\ args.overwrite = DEFAULT_OVERWRITE
    /\ config.project =
          Some([name |-> None, output |-> Some(args.output), overwrite |-> None])

\* The directories of the clones made so far, and the temporary roots
\* allocated for them.
CloneDirs ==
    {log[n].path : n \in {m \in DOMAIN log :
        log[m].ev = "resolve" /\ StartsWith(log[m].path, <<"/tmp/">>)}}

TempRoots == {log[n].path : n \in {m \in DOMAIN log : log[m].ev = "tempdir"}}

\* C7: a directory that holds a clone is removed only by the cleanup that
\* follows the last scaffold, so that at every step of a scaffold after its
\* source was resolved (context, rendering, hooks) the source tree is there.
C7_ClonesRemovedOnlyAtCleanup ==
    [][/\ (tmp \ tmp' # {}) => (pc = "cleanup" /\ i > Len(config.scaffolds))
       /\ (pc' \in {"context", "register", "render", "pre", "post", "return"}) =>
              SourceTreePresent(Unwrap(base'), tmp')]_vars

\* C7 happens: the clone of the first of two scaffolds was there until the
\* second had finished, and was removed by the cleanup.
C7_Witness ==
    /\ pc = "done"
    /\ Len(config.scaffolds) = 2
    /\ ~is_local_repo(config.scaffolds[1].repo)
    /\ \E m, n \in DOMAIN log :
          /\ m < n
          /\ log[m].ev = "return" /\ log[m].s = 2
          /\ log[n].ev = "remove" /\ log[n].path \in CloneDirs
          /\ log[n].path \notin tmp

\* C8: when the run has ended, in success or because a step of a scaffold
\* failed, no directory that held a clone made during the run is left.
C8_NoCloneLeftAtRunEnd ==
    (\/ pc = "done"
     \/ pc = "failed" /\ err \in {"resolve", "register", "render", "pre hook",
                                  "post hook"}) =>
        CloneDirs \cap tmp = {}

\* C9: after a successful run no temporary root allocated by the run is left.
C9_NoTempRootAfterSuccess ==
    pc = "done" => TempRoots \cap tmp = {}

\* C10: the scaffolds are processed in configuration order, each only after
\* every earlier one has returned; an error is the last thing the run does;
\* and a file a scaffold wrote holds what was last written to it.
C10_ConfigOrderFailFast ==
    /\ \A m, n \in DOMAIN log : m < n => log[m].s <= log[n].s
    /\ \A n \in DOMAIN log : \A s \in 1..(log[n].s - 1) :
          \E m \in 1..n : log[m].s = s /\ log[m].ev = "return"
    /\ \A n \in DOMAIN log :
          log[n].ev = "error" => (n = Len(log) /\ pc = "failed")
    /\ pc = "failed" => err # ""
    /\ \A n \in DOMAIN log :
          log[n].ev = "write" =>
              /\ log[n].path \in DOMAIN out
              /\ out[log[n].path] = log[LastWrite(log[n].path)].content

\* C10 happens: the second scaffold failed after the first had completed,
\* and the file the first wrote is on disk as written.
C10_Witness ==
    /\ pc = "failed" /\ i = 2
    /\ \E n \in DOMAIN log :
          /\ log[n].s = 1 /\ log[n].ev = "write"
          /\ LastWrite(log[n].path) = n
          /\ out[log[n].path] = log[n].content
    /\ \E n \in DOMAIN log : log[n].s = 2 /\ log[n].ev = "error"

\* The events of the file entries of scaffold s, in the order of the log.
EntryEvents(s) ==
    {n \in DOMAIN log : log[n].s = s /\ log[n].ev \in {"write", "skip"}}

\* C11: the entries of a scaffold are processed in declaration order, none
\* twice and none left out; once an entry has failed no entry of the
\* scaffold is processed; and the files written by the earlier entries are
\* on disk as written.
C11_FirstFailingEntryStopsScaffold ==
    /\ \A n \in DOMAIN log :
          log[n].ev \in {"write", "skip"} =>
              log[n].j = Cardinality({m \in EntryEvents(log[n].s) : m <= n})
    /\ \A n \in DOMAIN log :
          (log[n].ev = "error" /\ log[n].content = <<"render">>) =>
              /\ pc = "failed"
              /\ \A m \in EntryEvents(log[n].s) : m < n /\ log[m].j < log[n].j
    /\ (pc = "failed" /\ err = "render") =>
          \A m \in EntryEvents(i) :
              log[m].ev = "write" =>
                  /\ log[m].path \in DOMAIN out
                  /\ out[log[m].path] = log[LastWrite(log[m].path)].content

\* C11 happens: the second entry of a scaffold failed to render, the file
\* of the first is on disk and nothing was written for the second.
C11_Witness ==
    /\ pc = "failed" /\ err = "render" /\ j = 2
    /\ ~IsSome(EntryContent)
    /\ \E m \in EntryEvents(i) :
          /\ log[m].ev = "write" /\ log[m].j = 1
          /\ out[log[m].path] = log[m].content
    /\ \A m \in EntryEvents(i) : log[m].j = 1

\* The events of scaffold s before position n of the log.
Before(s, n, evs) == {m \in 1..(n - 1) : log[m].s = s /\ log[m].ev \in evs}

\* C12: a post-hook is run only after the source of its scaffold was
\* resolved, its pre-hook, when declared, succeeded and all its file entries
\* were rendered; after a failure of resolution, registration, rendering or
\* the pre-hook no post-hook of the scaffold is run.
C12_PostHookOnlyAfterSuccess ==
    /\ \A n \in DOMAIN log :
          log[n].ev \in {"post", "post failed"} =>
              LET s == log[n].s
              IN  /\ Before(s, n, {"resolve"}) # {}
                  /\ Before(s, n, {"rendered"}) # {}
                  /\ Cardinality(Before(s, n, {"write", "skip"}))
                        = Len(config.scaffolds[s].template.files)
                  /\ IsSome(PreScript(config.scaffolds[s])) =>
                        Before(s, n, {"pre"}) # {}
                  /\ Before(s, n, {"error", "pre failed"}) = {}
    /\ \A n \in DOMAIN log :
          (/\ log[n].ev = "error"
           /\ log[n].content \in {<<"resolve">>, <<"register">>, <<"render">>,
                                  <<"pre hook">>}) =>
              \A m \in DOMAIN log :
                  log[m].s = log[n].s => log[m].ev \notin {"post", "post failed"}

\* C12 happens: the pre-hook of a scaffold that declares a post-hook has
\* failed, and the post-hook was not run.
C12_Witness ==
    /\ pc = "failed" /\ err = "pre hook"
    /\ IsSome(PostScript(Scaffold))
    /\ \A m \in DOMAIN log : log[m].ev \notin {"post", "post failed"}

\* C13: when the source of a scaffold cannot be resolved, process_scaffold
\* returns the error: no hook of the scaffold is run and no entry of it is
\* registered, rendered, copied or skipped.
C13_ResolveFailureDoesNothing ==
    \A n \in DOMAIN log :
        (log[n].ev = "error" /\ log[n].content = <<"resolve">>) =>
            /\ pc = "failed" /\ base = None
            /\ \A m \in DOMAIN log :
                  log[m].s = log[n].s => log[m].ev \in {"tempdir", "error"}
            /\ \A p \in DOMAIN out :
                  \/ p \in DOMAIN out0 /\ LastWrite(p) = 0 /\ out[p] = out0[p]
                  \/ LastWrite(p) # 0 /\ log[LastWrite(p)].s < log[n].s

\* C13 happens: the local source of the second scaffold could not be
\* canonicalized; only the first scaffold has written files.
C13_Witness ==
    /\ pc = "failed" /\ err = "resolve" /\ i = 2
    /\ is_local_repo(Scaffold.repo)
    /\ \E m \in DOMAIN log : log[m].s = 1 /\ log[m].ev = "write"
    /\ \A m \in DOMAIN log : log[m].s = 2 => log[m].ev = "error"

\* The sources the documentation calls remote, by their scheme.
RemoteSchemes == {"http://", "https://", "git://"}
IsRemoteSource(repo) == repo # <<>> /\ repo[1] \in RemoteSchemes

\* The scaffolds that have returned from process_scaffold.
Returned == {s \in 1..Len(config.scaffolds) :
                \E n \in DOMAIN log : log[n].s = s /\ log[n].ev = "return"}

\* The directory the source of scaffold s was resolved to.
ResolvedTo(s) ==
    log[CHOOSE n \in DOMAIN log : log[n].s = s /\ log[n].ev = "resolve"].path

\* C14: a source is resolved as a remote one (cloned under a temporary
\* directory) exactly when it begins with http://, https:// or git://, any
\* other source is resolved as the canonical local path, and the disposable
\* directories run() has collected are those of the returned scaffolds with
\* such a remote source, and no other.
C14_RemoteIffKnownScheme ==
    /\ \A n \in DOMAIN log :
          log[n].ev = "resolve" =>
              LET repo == config.scaffolds[log[n].s].repo
              IN  /\ StartsWith(log[n].path, <<"/tmp/">>) <=> IsRemoteSource(repo)
                  /\ ~IsRemoteSource(repo) => log[n].path = <<"/abs/">> \o repo
                  /\ (\E m \in DOMAIN log :
                         log[m].s = log[n].s /\ log[m].ev = "tempdir")
                        <=> IsRemoteSource(repo)
    /\ pc \in {"loop", "resolve", "context", "register", "render", "pre", "post",
               "return", "cleanup", "done", "failed"} =>
          LET remote == {s \in Returned : IsRemoteSource(config.scaffolds[s].repo)}
          IN  /\ Len(persistent_dirs) = Cardinality(remote)
              /\ \A s \in remote :
                    \E d \in DOMAIN persistent_dirs :
                        persistent_dirs[d] = ResolvedTo(s)

\* C14 happens: an http:// source was cloned and reported as disposable, and
\* an ssh:// source was resolved as a local path and not reported.
C14_Witness ==
    /\ Len(config.scaffolds) = 2
    /\ config.scaffolds[1].repo[1] = "http://"
    /\ config.scaffolds[2].repo[1] = "ssh://"
    /\ Returned = {1, 2}
    /\ StartsWith(ResolvedTo(2), <<"/abs/", "ssh://">>)
    /\ persistent_dirs = <<ResolvedTo(1)>>

\* The scaffolds of the configuration whose source is a local path.
LocalScaffolds ==
    {s \in 1..Len(config.scaffolds) : ~IsRemoteSource(config.scaffolds[s].repo)}

\* C15: a scaffold with a local source allocates no temporary directory and
\* reports no disposable directory, so that no local source is ever listed
\* for removal or removed, and a run whose scaffolds are all local allocates,
\* lists and removes nothing.
C15_LocalSourceNeverDisposable ==
    /\ \A n \in DOMAIN log :
          /\ log[n].ev = "tempdir" => log[n].s \notin LocalScaffolds
          /\ log[n].ev = "remove" => StartsWith(log[n].path, <<"/tmp/">>)
    /\ \A d \in DOMAIN persistent_dirs :
          /\ StartsWith(persistent_dirs[d], <<"/tmp/">>)
          /\ \A s \in LocalScaffolds :
                persistent_dirs[d] # <<"/abs/">> \o config.scaffolds[s].repo
    /\ Len(persistent_dirs) <= Cardinality(Returned \ LocalScaffolds)
    /\ (pc # "start" /\ LocalScaffolds = 1..Len(config.scaffolds)) =>
          /\ next_tmp = 0
          /\ tmp = {}
          /\ persistent_dirs = <<>>
          /\ \A n \in DOMAIN log : log[n].ev \notin {"tempdir", "remove"}

\* C15 happens: a run of two local scaffolds has finished, and there was
\* nothing to clean up.
C15_Witness ==
    /\ pc = "done"
    /\ Len(config.scaffolds) = 2
    /\ LocalScaffolds = {1, 2}
    /\ Returned = {1, 2}
    /\ persistent_dirs = <<>>
    /\ tmp = {}

\* The disposable directories clean_up_persistent_dirs has removed.
Removed == {d \in DOMAIN persistent_dirs :
               \E n \in DOMAIN log :
                   log[n].ev = "remove" /\ log[n].path = persistent_dirs[d]}

\* C16: run() returns Ok exactly when every scaffold of the configuration
\* has returned from process_scaffold and every disposable directory was
\* removed; any error of a step is the error run() returns, and nothing is
\* done after it.
C16_SuccessIffAllStepsSucceeded ==
    /\ pc = "done" =>
          /\ err = ""
          /\ \A n \in DOMAIN log : log[n].ev # "error"
          /\ Returned = 1..Len(config.scaffolds)
          /\ Removed = DOMAIN persistent_dirs
    /\ \A n \in DOMAIN log :
          log[n].ev = "error" =>
              /\ pc = "failed"
              /\ n = Len(log)
              /\ log[n].content = <<err>>
    /\ pc = "failed" =>
          /\ err \in {"load_config", "resolve", "register", "render", "pre hook",
                      "post hook", "cleanup"}
          /\ log # <<>> /\ log[Len(log)].ev = "error"
          /\ \/ err = "load_config"
             \/ Returned # 1..Len(config.scaffolds)
             \/ err = "cleanup" /\ Removed # DOMAIN persistent_dirs

\* C16 happens: a run with a remote scaffold has returned Ok after the clone
\* was removed.
C16_Witness ==
    /\ pc = "done"
    /\ Len(config.scaffolds) = 2
    /\ Returned = {1, 2}
    /\ persistent_dirs # <<>>
    /\ Removed = DOMAIN persistent_dirs

\* The text of the source file of entry n of scaffold s.
OwnSource(s, n) ==
    RepoTree[TemplatePath(config.scaffolds[s],
                          config.scaffolds[s].template.files[n].src)]

\* C17: what an entry writes is, for a src ending in ".tera", the rendering
\* of the entry's own template file against the context of its scaffold,
\* and, for any other src, the text of its source file as it is.
C17_TemplatesRenderedOthersCopied ==
    \A n \in DOMAIN log :
        log[n].ev = "write" =>
            LET s == log[n].s
                file == config.scaffolds[s].template.files[log[n].j]
            IN  IF IsTemplate(file.src)
                THEN Some(log[n].content)
                        = RenderText(OwnSource(s, log[n].j),
                                     BuildContext(project_name,
                                                  config.scaffolds[s].variables))
                ELSE log[n].content = OwnSource(s, log[n].j)

\* The names of the variables scaffold s declares.
Declared(s) ==
    IF s.variables = <<>> THEN {} ELSE DOMAIN s.variables[1]

\* C18: the context of the scaffold being processed holds project_name and
\* the variables the scaffold declares, and nothing else; a declared
\* variable has its declared value, project_name included, and a
\* project_name that is not declared is the effective project name.
C18_ContextIsProjectNamePlusDeclared ==
    pc \in {"register", "render", "pre", "post", "return"} =>
        /\ DOMAIN context = {"project_name"} \cup Declared(Scaffold)
        /\ \A v \in Declared(Scaffold) : context[v] = Scaffold.variables[1][v]
        /\ "project_name" \notin Declared(Scaffold) =>
              context["project_name"]
                  = [type |-> "str", str |-> project_name, int |-> 0]

\* C18 happens: the second scaffold declares project_name and env, the first
\* one declared env and workers; the context of the second has the declared
\* project_name and no workers.
C18_Witness ==
    /\ pc = "render" /\ i = 2
    /\ Declared(config.scaffolds[1]) = {"env", "workers"}
    /\ Declared(config.scaffolds[2]) = {"project_name", "env"}
    /\ context["project_name"].str = "Shadowed"
    /\ context["project_name"].str # project_name
    /\ "workers" \notin DOMAIN context

\* The variables a text refers to.
Placeholders(text) ==
    {VarOf[text[n]] : n \in {m \in DOMAIN text : text[m] \in DOMAIN VarOf}}

\* A text with each of its placeholders replaced by the value ctx gives it.
Substituted(text, ctx) ==
    [n \in DOMAIN text |->
        IF text[n] \in DOMAIN VarOf
        THEN IF ctx[VarOf[text[n]]].type = "int"
             THEN ToString(ctx[VarOf[text[n]]].int)
             ELSE ctx[VarOf[text[n]]].str
        ELSE text[n]]

\* C19: when the context of the scaffold has every variable the dest of the
\* entry refers to, the destination resolves, to the dest with every
\* placeholder replaced by its value in that context; and every path an
\* entry wrote or skipped is the output directory joined with its dest so
\* substituted.
C19_DestSubstitutedFromContext ==
    /\ (pc = "render" /\ j <= Len(Scaffold.template.files)
           /\ Placeholders(File.dest) \subseteq DOMAIN context) =>
          /\ IsSome(DestPathStr)
          /\ Unwrap(DestPathStr) = Substituted(File.dest, context)
          /\ Placeholders(Unwrap(DestPathStr)) = {}
    /\ \A n \in DOMAIN log :
          log[n].ev \in {"write", "skip"} =>
              LET sc == config.scaffolds[log[n].s]
                  dest == Substituted(sc.template.files[log[n].j].dest,
                                      BuildContext(project_name, sc.variables))
              IN  log[n].path = IF dest[1] = "/" THEN dest
                                ELSE <<output, "/">> \o dest

\* C19 happens: a dest naming env before project_name and a dest naming
\* project_name before env were both written with both values in place.
C19_Witness ==
    /\ \E n \in DOMAIN log :
          /\ log[n].ev = "write"
          /\ log[n].path = <<output, "/", "production", "-", "Shadowed", ".txt">>
    /\ \E n \in DOMAIN log :
          /\ log[n].ev = "write"
          /\ log[n].path = <<output, "/", project_name, "-", "development", ".yaml">>

\* C20: every path an entry creates or overwrites lies under the output
\* directory: it begins with the output directory and has no parent-directory
\* segment that leads out of it.
C20_WritesOnlyUnderOutput ==
    \A n \in DOMAIN log :
        log[n].ev = "write" =>
            /\ StartsWith(log[n].path, <<output, "/">>)
            /\ \A c \in DOMAIN log[n].path : log[n].path[c] # ".."

\* The events of kind ev that scaffold s has in the log.
EventsOf(s, evs) == {n \in DOMAIN log : log[n].s = s /\ log[n].ev \in evs}

\* C21: a hook that is not declared, the hooks section being absent or
\* naming only the other hook, spawns no process and is no error; a scaffold
\* returns with all its entries processed, each declared hook run once and
\* no other.
C21_AbsentHookIsSkipped ==
    /\ \A n \in DOMAIN log :
          LET sc == config.scaffolds[log[n].s]
          IN  /\ log[n].ev \in {"pre", "pre failed"} => IsSome(PreScript(sc))
              /\ log[n].ev \in {"post", "post failed"} => IsSome(PostScript(sc))
              /\ (log[n].ev = "error" /\ log[n].content = <<"pre hook">>) =>
                    /\ IsSome(PreScript(sc))
                    /\ EventsOf(log[n].s, {"pre failed"}) # {}
              /\ (log[n].ev = "error" /\ log[n].content = <<"post hook">>) =>
                    /\ IsSome(PostScript(sc))
                    /\ EventsOf(log[n].s, {"post failed"}) # {}
    /\ \A s \in Returned :
          LET sc == config.scaffolds[s]
          IN  /\ Cardinality(EventsOf(s, {"write", "skip"})) = Len(sc.template.files)
              /\ Cardinality(EventsOf(s, {"rendered"})) = 1
              /\ Cardinality(EventsOf(s, {"pre"}))
                    = IF IsSome(PreScript(sc)) THEN 1 ELSE 0
              /\ Cardinality(EventsOf(s, {"post"}))
                    = IF IsSome(PostScript(sc)) THEN 1 ELSE 0

\* C21 happens: a scaffold with no hooks section and a scaffold with a
\* pre-hook only have both returned, and the only hook run is that pre-hook.
C21_Witness ==
    /\ Len(config.scaffolds) = 2
    /\ config.scaffolds[1].hooks = <<>>
    /\ config.scaffolds[2].hooks # <<>>
    /\ IsSome(PreScript(config.scaffolds[2]))
    /\ ~IsSome(PostScript(config.scaffolds[2]))
    /\ Returned = {1, 2}
    /\ EventsOf(1, {"pre", "pre failed", "post", "post failed"}) = {}
    /\ Cardinality(EventsOf(2, {"pre"})) = 1
    /\ EventsOf(2, {"post", "post failed"}) = {}

\* The step a failed hook is reported as.
HookStep(ev) == IF ev = "pre failed" THEN <<"pre hook">> ELSE <<"post hook">>

\* C22: a hook counts as run only when its script was spawned and exited with
\* success; a script that cannot be spawned or exits with another status is
\* an error, which is the last thing its scaffold does: the scaffold does not
\* return and the run fails with that error.
C22_HookOkIffSpawnedAndSucceeded ==
    \A n \in DOMAIN log :
        /\ log[n].ev \in {"pre", "post"} => log[n].content = <<"exit success">>
        /\ log[n].ev \in {"pre failed", "post failed"} =>
              /\ log[n].content \in {<<"spawn error">>, <<"exit failure">>}
              /\ Len(log) = n + 1
              /\ log[n + 1].ev = "error"
              /\ log[n + 1].s = log[n].s
              /\ log[n + 1].content = HookStep(log[n].ev)
              /\ pc = "failed"
              /\ log[n].s \notin Returned

\* C22 happens: the pre-hook of a scaffold exited with success, its post-hook
\* with a failure status, and the run has failed there.
C22_Witness ==
    /\ pc = "failed" /\ err = "post hook"
    /\ \E n \in EventsOf(i, {"pre"}) : log[n].content = <<"exit success">>
    /\ \E n \in EventsOf(i, {"post failed"}) : log[n].content = <<"exit failure">>

\* C23: once clean_up_persistent_dirs has returned Ok, no directory of its
\* list is on disk, nor anything below one; while it runs, that is so for the
\* directories it has gone past.
C23_CleanedDirsAreGone ==
    \A d \in DOMAIN persistent_dirs :
        (pc = "done" \/ (pc = "cleanup" /\ d < k)) =>
            /\ persistent_dirs[d] \notin tmp
            /\ \A t \in tmp : ~StartsWith(t, persistent_dirs[d])

\* C23 happens: the clones of two remote scaffolds were listed and removed,
\* and the run is done; what is left on disk is not in the list.
C23_Witness ==
    /\ pc = "done"
    /\ Len(persistent_dirs) = 2
    /\ persistent_dirs[1] # persistent_dirs[2]
    /\ tmp # {}
    /\ \A d \in DOMAIN persistent_dirs : persistent_dirs[d] \notin tmp

\* C24: when the registration of a template entry fails, the scaffold has
\* processed no entry: it has written and skipped nothing, and every file of
\* the output is as it was before this scaffold, whichever entry is broken.
C24_RegisterFailureWritesNothing ==
    \A n \in DOMAIN log :
        (log[n].ev = "error" /\ log[n].content = <<"register">>) =>
            /\ pc = "failed"
            /\ EventsOf(log[n].s, {"write", "skip", "rendered", "pre", "pre failed",
                                   "post", "post failed", "return"}) = {}
            /\ \A p \in DOMAIN out :
                  \/ p \in DOMAIN out0 /\ LastWrite(p) = 0 /\ out[p] = out0[p]
                  \/ LastWrite(p) # 0 /\ log[LastWrite(p)].s < log[n].s

\* C24 happens: registration failed for a scaffold whose template entry comes
\* second, after an entry that is a plain copy; the copy was not made.
C24_Witness ==
    /\ pc = "failed" /\ err = "register"
    /\ Len(Scaffold.template.files) = 2
    /\ ~IsTemplate(Scaffold.template.files[1].src)
    /\ IsTemplate(Scaffold.template.files[2].src)
    /\ EventsOf(i, {"write", "skip"}) = {}
    /\ out = out0

\* C25: while a scaffold is rendered, the key of each of its template
\* entries names the template registered from that entry's own source file,
\* and what a template entry wrote is the rendering of that file.
C25_KeyNamesOwnTemplate ==
    /\ pc = "render" =>
          \A n \in DOMAIN Scaffold.template.files :
              LET src == Scaffold.template.files[n].src
              IN  IsTemplate(src) =>
                      /\ TemplateKey(src) \in DOMAIN tera
                      /\ tera[TemplateKey(src)].path = TemplatePath(Scaffold, src)
                      /\ tera[TemplateKey(src)].text = OwnSource(i, n)
    /\ \A n \in DOMAIN log :
          (/\ log[n].ev = "write"
           /\ IsTemplate(config.scaffolds[log[n].s].template.files[log[n].j].src)) =>
              RenderText(OwnSource(log[n].s, log[n].j),
                         BuildContext(project_name,
                                      config.scaffolds[log[n].s].variables))
                  = Some(log[n].content)

\* The attempts of scaffold s at a step: its events of these kinds, and its
\* errors of that step.
Attempts(s, evs, step) ==
    EventsOf(s, evs)
        \cup {n \in EventsOf(s, {"error"}) : log[n].content = <<step>>}

\* C26: in a run every scaffold resolves its source at most once, allocates
\* at most one temporary directory, registers its templates at most once,
\* runs each of its hooks at most once and processes each of its entries at
\* most once; a run reports at most one error, and nothing is attempted after
\* it.
C26_NoStepRetried ==
    /\ \A s \in DOMAIN config.scaffolds :
          /\ Cardinality(Attempts(s, {"resolve"}, "resolve")) <= 1
          /\ Cardinality(EventsOf(s, {"tempdir"})) <= 1
          /\ Cardinality(Attempts(s, {"register"}, "register")) <= 1
          /\ Cardinality(EventsOf(s, {"pre", "pre failed"})) <= 1
          /\ Cardinality(EventsOf(s, {"post", "post failed"})) <= 1
          /\ Cardinality(EventsOf(s, {"return"})) <= 1
          /\ \A e \in DOMAIN config.scaffolds[s].template.files :
                Cardinality({n \in Attempts(s, {"write", "skip"}, "render") :
                                log[n].j = e}) <= 1
    /\ Cardinality({n \in DOMAIN log : log[n].ev = "error"}) <= 1
    /\ \A n \in DOMAIN log : log[n].ev = "error" => n = Len(log)
    /\ \A n \in DOMAIN log : log[n].ev = "remove" =>
          Cardinality({m \in DOMAIN log : log[m].ev = "remove"
                                            /\ log[m].j = log[n].j}) = 1

\* C26 happens: the pre-hook of the second scaffold failed after the first
\* scaffold had run its own; each was run once, and the run has ended.
C26_Witness ==
    /\ pc = "failed" /\ err = "pre hook" /\ i = 2
    /\ Cardinality(EventsOf(1, {"pre", "pre failed"})) = 1
    /\ Cardinality(EventsOf(2, {"pre", "pre failed"})) = 1
    /\ EventsOf(2, {"pre failed"}) # {}
    /\ \A e \in DOMAIN Scaffold.template.files :
          Cardinality({n \in EventsOf(2, {"write", "skip"}) : log[n].j = e}) = 1

\* The resolve events of the remote scaffolds: one per clone.
CloneEvents ==
    {n \in DOMAIN log : log[n].ev = "resolve" /\ StartsWith(log[n].path, <<"/tmp/">>)}

\* C27: the temporary roots allocated in a run are pairwise distinct, and so
\* are the clone directories, none lying inside another, whatever the names
\* of the scaffolds; a clone is on disk from its resolution until cleanup
\* removes that very directory, so that no resolution and no removal of
\* another scaffold takes it away.
C27_ClonesAreDistinct ==
    /\ \A n, m \in {e \in DOMAIN log : log[e].ev = "tempdir"} :
          n # m => log[n].path # log[m].path
    /\ \A n, m \in CloneEvents :
          n # m => /\ log[n].path # log[m].path
                   /\ ~StartsWith(log[n].path, log[m].path)
    /\ \A n \in CloneEvents :
          (\A m \in DOMAIN log :
               ~(log[m].ev = "remove" /\ log[m].path = log[n].path))
              => log[n].path \in tmp
    /\ \A n \in DOMAIN log :
          log[n].ev = "remove" =>
              Cardinality({m \in CloneEvents : log[m].path = log[n].path}) = 1

\* C27 happens: two remote scaffolds with the same name are both cloned, into
\* two directories that are both on disk.
C27_Witness ==
    /\ Len(config.scaffolds) = 2
    /\ config.scaffolds[1].name = config.scaffolds[2].name
    /\ config.scaffolds[1].repo # config.scaffolds[2].repo
    /\ Cardinality(CloneEvents) = 2
    /\ \A n \in CloneEvents : log[n].path \in tmp
    /\ \E n, m \in CloneEvents : log[n].path # log[m].path

\* The entries, of any scaffold, that resolved to the destination p.
EntriesAt(p) ==
    {n \in DOMAIN log : log[n].ev \in {"write", "skip"} /\ log[n].path = p}

\* C28: without overwrite, a file from before the run is never written, and
\* of the entries that resolve to one new destination the first writes it
\* and every later one is skipped, so that the file has the content of the
\* first; with overwrite no entry is skipped and a destination has the
\* content of the last entry that resolved to it.
C28_FirstOrLastEntryWins ==
    \A n \in DOMAIN log :
        log[n].ev \in {"write", "skip"} =>
            LET p == log[n].path
                first == CHOOSE m \in EntriesAt(p) : \A e \in EntriesAt(p) : m <= e
                last == CHOOSE m \in EntriesAt(p) : \A e \in EntriesAt(p) : m >= e
            IN  IF overwrite
                THEN /\ log[n].ev = "write"
                     /\ p \in DOMAIN out
                     /\ out[p] = log[last].content
                ELSE IF p \in DOMAIN out0
                THEN /\ log[n].ev = "skip"
                     /\ out[p] = out0[p]
                ELSE /\ log[n].ev = "write" <=> n = first
                     /\ Cardinality({m \in EntriesAt(p) : log[m].ev = "write"}) = 1
                     /\ p \in DOMAIN out
                     /\ out[p] = log[first].content

\* C28 happens: without overwrite, two scaffolds resolved to the same new
\* destination with different contents; the first wrote it, the second was
\* skipped, and the file has the content of the first.
C28_Witness ==
    /\ ~overwrite
    /\ \E n, m \in DOMAIN log :
          /\ n < m
          /\ log[n].s # log[m].s
          /\ log[n].ev = "write" /\ log[m].ev = "skip"
          /\ log[n].path = log[m].path
          /\ log[n].path \notin DOMAIN out0
          /\ config.scaffolds[log[n].s] # config.scaffolds[log[m].s]
          /\ out[log[n].path] = log[n].content

\* The removals clean_up_persistent_dirs has made, in the order of the log.
Removals == {n \in DOMAIN log : log[n].ev = "remove"}

\* C29: the x-th removal is that of the x-th directory of the list; when a
\* removal fails the run fails with that error, the directories before the
\* failing one have been removed and are gone, and the directories after it
\* are on disk, with no removal attempted.
C29_CleanupStopsAtFirstFailure ==
    /\ \A n \in Removals :
          /\ log[n].j = Cardinality({m \in Removals : m <= n})
          /\ log[n].path = persistent_dirs[log[n].j]
    /\ \A n \in DOMAIN log :
          (log[n].ev = "error" /\ log[n].content = <<"cleanup">>) =>
              /\ pc = "failed"
              /\ k \in DOMAIN persistent_dirs
              /\ Cardinality(Removals) = k - 1
              /\ \A m \in Removals : m < n
              /\ \A d \in DOMAIN persistent_dirs :
                    /\ d < k => persistent_dirs[d] \notin tmp
                    /\ d > k => /\ persistent_dirs[d] \in tmp
                                /\ \A m \in Removals : log[m].j # d

\* C29 happens: the removal of the first of two listed directories failed;
\* the second is on disk and its removal was not attempted.
C29_Witness ==
    /\ pc = "failed" /\ err = "cleanup"
    /\ Len(persistent_dirs) = 2
    /\ k = 1
    /\ Removals = {}
    /\ persistent_dirs[2] \in tmp

\* C30: when the resolution of a remote scaffold fails after its temporary
\* directory was allocated, that directory and everything below it are gone,
\* the list of directories to clean up has nothing below it, and the list is
\* as long as the number of remote scaffolds that returned.
C30_FailedCloneLeavesNoTempDir ==
    \A n \in DOMAIN log :
        (log[n].ev = "error" /\ log[n].content = <<"resolve">>) =>
            /\ Len(persistent_dirs) = Cardinality(Returned \ LocalScaffolds)
            /\ \A m \in EventsOf(log[n].s, {"tempdir"}) :
                  /\ \A t \in tmp : ~StartsWith(t, log[m].path)
                  /\ \A d \in DOMAIN persistent_dirs :
                        ~StartsWith(persistent_dirs[d], log[m].path)

\* C30 happens: the clone of the second scaffold failed after the first, a
\* remote one too, had returned; the directory allocated for the second is
\* gone, and the list holds the clone of the first only, which is on disk.
C30_Witness ==
    /\ pc = "failed" /\ err = "resolve" /\ i = 2
    /\ EventsOf(2, {"tempdir"}) # {}
    /\ \A m \in EventsOf(2, {"tempdir"}) : log[m].path \notin tmp
    /\ Len(persistent_dirs) = 1
    /\ persistent_dirs[1] \in tmp

====
